---------------------------- MODULE Spec2Model ----------------------------
(***************************************************************************)
(* sio2prom: the dynamic metrics registry (load_prom / updata_metrics),    *)
(* the collection scheduler and the exposition handler of src/main.rs.     *)
(*                                                                         *)
(* A Metric (sio::metrics::Metric) is a record                             *)
(*   [name, mtype, labels, value]                                          *)
(* mtype is the kind as the source reports it, a sequence of characters    *)
(* (main.rs lower-cases it before comparing); labels is the label map in   *)
(* its iteration order, a sequence of <<label name, label value>> pairs    *)
(* with unique names; value is the reported number.  The help text only    *)
(* reaches the exposition text and is left out.                            *)
(***************************************************************************)
EXTENDS Integers, Sequences, FiniteSets, TLC

(***************************************************************************)
(* Bounds of the model.                                                    *)
(***************************************************************************)
MaxBatch == 2        \* longest list of metrics one collection returns
MaxLabels == 1       \* most labels one metric carries
MaxLabelValue == 2   \* label values are 1..MaxLabelValue (ordered as strings are)
MaxValue == 2        \* reported values are -1 and 2..MaxValue
MaxCalls == 3        \* calls made to the registry in SpecRegistry
MaxMetrics == 4      \* metrics handed to the registry, over all calls, in SpecRegistry
MaxInterval == 1     \* the configured interval (metric_update) is 0..MaxInterval
MaxCycles == 2       \* scheduler iterations followed in Spec
MaxRequests == 2     \* HTTP requests followed
NumHandlers == 1     \* HTTP handler threads
NumWorkers == 2      \* threads calling the registry in SpecConc

Names == {"m1", "m2"}
LabelNames == {"a", "b"}
LabelValues == 1..MaxLabelValue
Values == {-1} \cup (2..MaxValue)

counter_s == <<"c", "o", "u", "n", "t", "e", "r">>
gauge_s == <<"g", "a", "u", "g", "e">>
MTypes == {counter_s, <<"G", "a", "u", "g", "e">>, <<"s", "u", "m", "m", "a", "r", "y">>}

Range(s) == {s[i] : i \in DOMAIN s}

SeqsUpTo(S, n) == UNION {[1..k -> S] : k \in 0..n}

\* The label maps a metric can carry: unique label names, in any iteration order.
LabelMaps ==
  {l \in SeqsUpTo(LabelNames \X LabelValues, MaxLabels) :
     \A i, j \in DOMAIN l : l[i][1] = l[j][1] => i = j}

\* A name the registry refuses as malformed: it starts with a digit.
BadNames == {"0m"}

MalformedMetric ==
  [name : BadNames, mtype : {counter_s}, labels : {<<>>}, value : {MaxValue}]

Metric == [name : Names, mtype : MTypes, labels : LabelMaps, value : Values] \cup MalformedMetric

Batches == SeqsUpTo(Metric, MaxBatch)

EmptyMap == [x \in {} |-> x]

(***************************************************************************)
(* String::to_lowercase on the characters the kinds are spelled with.      *)
(***************************************************************************)
lower_char(c) ==
  CASE c = "C" -> "c"
    [] c = "G" -> "g"
    [] c = "A" -> "a"
    [] c = "U" -> "u"
    [] c = "E" -> "e"
    [] OTHER -> c

to_lowercase(s) == [i \in DOMAIN s |-> lower_char(s[i])]

(***************************************************************************)
(* load_prom, lines 118-120: the label entries sorted by label VALUE (a    *)
(* stable sort: entries of equal value keep their iteration order), then   *)
(* the label names in that order.                                          *)
(***************************************************************************)
RECURSIVE insert_sorted(_, _)
insert_sorted(s, e) ==
  IF s = <<>> THEN <<e>>
  ELSE IF s[Len(s)][2] <= e[2] THEN Append(s, e)
  ELSE Append(insert_sorted(SubSeq(s, 1, Len(s) - 1), e), s[Len(s)])

RECURSIVE labels_sort(_)
labels_sort(l) ==
  IF l = <<>> THEN <<>>
  ELSE insert_sorted(labels_sort(SubSeq(l, 1, Len(l) - 1)), l[Len(l)])

label_names(l) == [i \in DOMAIN l |-> labels_sort(l)[i][1]]

\* updata_metrics, lines 159-162: the label map handed to get_metric_with.
label_map(l) ==
  [k \in {l[i][1] : i \in DOMAIN l} |-> l[CHOOSE i \in DOMAIN l : l[i][1] = k][2]]

(***************************************************************************)
(* The registry.  A family (CounterVec / GaugeVec) is                      *)
(*   [labels |-> its label names in registration order,                    *)
(*    series |-> label-value tuple :> current value]                       *)
(* METRIC_COUNTERS and METRIC_GAUGES map a name to its family; the         *)
(* prometheus default registry holds the names registered so far.          *)
(***************************************************************************)
put(f, k, v) == [x \in DOMAIN f \cup {k} |-> IF x = k THEN v ELSE f[x]]

new_vec(labels) == [labels |-> labels, series |-> EmptyMap]

\* Mutant of register_vec: the registry refuses nothing.
register_vec_always_ok(registered, name) == TRUE

\* Desc::new: the name of a definition must be a well-formed metric name.
is_valid_metric_name(name) == name \notin BadNames

\* register_counter_vec! / register_gauge_vec!: Ok unless the definition is
\* malformed or the default registry already holds a collector of that name (of
\* either kind).
register_vec(registered, name) == is_valid_metric_name(name) /\ name \notin registered

\* Mutant of load_one: a name is refused only when its own kind's map holds it.
load_one_own_map(st, m) ==
  LET labels == label_names(m.labels) IN
  IF to_lowercase(m.mtype) = counter_s
    THEN IF m.name \notin DOMAIN st.counters
           THEN [st EXCEPT !.counters = put(@, m.name, new_vec(labels)),
                           !.registered = @ \cup {m.name}]
           ELSE st
  ELSE IF to_lowercase(m.mtype) = gauge_s
    THEN IF m.name \notin DOMAIN st.gauges
           THEN [st EXCEPT !.gauges = put(@, m.name, new_vec(labels)),
                           !.registered = @ \cup {m.name}]
           ELSE st
  ELSE st

\* One iteration of load_prom's loop, lines 116-148.
load_one(st, m) ==
  LET labels == label_names(m.labels) IN
  IF to_lowercase(m.mtype) = counter_s
    THEN IF register_vec(st.registered, m.name)
           THEN [st EXCEPT !.counters = put(@, m.name, new_vec(labels)),
                           !.registered = @ \cup {m.name}]
           ELSE st
  ELSE IF to_lowercase(m.mtype) = gauge_s
    THEN IF register_vec(st.registered, m.name)
           THEN [st EXCEPT !.gauges = put(@, m.name, new_vec(labels)),
                           !.registered = @ \cup {m.name}]
           ELSE st
  ELSE st

\* Mutant of load_prom: the loop ends at the first metric that is refused.
RECURSIVE load_prom_abort(_, _)
load_prom_abort(st, metrics) ==
  IF metrics = <<>> THEN st
  ELSE IF load_one(st, Head(metrics)) = st THEN st
  ELSE load_prom_abort(load_one(st, Head(metrics)), Tail(metrics))

RECURSIVE load_prom(_, _)
load_prom(st, metrics) ==
  IF metrics = <<>> THEN st
  ELSE load_prom(load_one(st, Head(metrics)), Tail(metrics))

\* Mutant of labels_match: the number of labels handed in is not looked at.
labels_match_subset(vec, lm) == \A i \in DOMAIN vec.labels : vec.labels[i] \in DOMAIN lm

\* MetricVec::get_metric_with: the labels handed in must be exactly the family's
\* label names; the series is found, or created at 0, under the tuple of their
\* values in the family's label order.
labels_match(vec, lm) ==
  /\ Cardinality(DOMAIN lm) = Len(vec.labels)
  /\ \A i \in DOMAIN vec.labels : vec.labels[i] \in DOMAIN lm

\* Mutant of series_key: the label values are not looked at.
series_key_first(vec, lm) == [i \in DOMAIN vec.labels |-> 1]

series_key(vec, lm) == [i \in DOMAIN vec.labels |-> lm[vec.labels[i]]]

series_value(vec, key) == IF key \in DOMAIN vec.series THEN vec.series[key] ELSE 0

\* Mutant of inc_by: a negative amount is added like any other.
inc_by_signed(cur, v) == cur + v

\* Counter::inc_by returns Err for a negative amount and leaves the counter as it
\* is; main.rs drops the result (line 1, line 183).
inc_by(cur, v) == IF v < 0 THEN cur ELSE cur + v

\* Mutant of set: the value is added to what the gauge holds.
set_adds(cur, v) == cur + v

\* Gauge::set, line 204.
set(cur, v) == v

\* updata_metrics, lines 165-181 and 186-202: the family is found under the
\* metric's name in the map of its kind, and its labels are the family's.
resolves(st, m) ==
  LET lm == label_map(m.labels) IN
  IF to_lowercase(m.mtype) = counter_s
    THEN m.name \in DOMAIN st.counters /\ labels_match(st.counters[m.name], lm)
  ELSE IF to_lowercase(m.mtype) = gauge_s
    THEN m.name \in DOMAIN st.gauges /\ labels_match(st.gauges[m.name], lm)
  ELSE FALSE

\* The series a metric that resolves is resolved to: <<<<kind, name>>, key>>.
child_of(st, m) ==
  LET lm == label_map(m.labels) IN
  IF to_lowercase(m.mtype) = counter_s
    THEN <<<<counter_s, m.name>>, series_key(st.counters[m.name], lm)>>
    ELSE <<<<gauge_s, m.name>>, series_key(st.gauges[m.name], lm)>>

\* get_metric_with, Ok arm (lines 175, 196): the series is there from now on.
resolve_one(st, m) ==
  LET ch == child_of(st, m) IN
  IF ch[1][1] = counter_s
    THEN [st EXCEPT !.counters[m.name].series =
                       put(@, ch[2], series_value(st.counters[m.name], ch[2]))]
    ELSE [st EXCEPT !.gauges[m.name].series =
                       put(@, ch[2], series_value(st.gauges[m.name], ch[2]))]

\* Lines 183 and 204: the resolved series is incremented, or set.
update_one(st, m) ==
  LET ch == child_of(st, m) IN
  IF ch[1][1] = counter_s
    THEN [st EXCEPT !.counters[m.name].series[ch[2]] = inc_by(@, m.value)]
    ELSE [st EXCEPT !.gauges[m.name].series[ch[2]] = set(@, m.value)]

\* One iteration of updata_metrics' loop, lines 158-209.
apply_one(st, m) ==
  IF resolves(st, m) THEN update_one(resolve_one(st, m), m) ELSE st

\* Mutant of updata_metrics: the loop ends at the first unregistered name.
RECURSIVE updata_metrics_stop(_, _)
updata_metrics_stop(st, metrics) ==
  IF metrics = <<>> THEN st
  ELSE IF Head(metrics).name \notin st.registered THEN st
  ELSE updata_metrics_stop(apply_one(st, Head(metrics)), Tail(metrics))

RECURSIVE updata_metrics(_, _)
updata_metrics(st, metrics) ==
  IF metrics = <<>> THEN st
  ELSE updata_metrics(apply_one(st, Head(metrics)), Tail(metrics))

(***************************************************************************)
(* Threads.  main and the scheduler thread are the program's; the handlers *)
(* are the HTTP server's request threads; the workers are the callers of   *)
(* load_prom and updata_metrics in SpecConc.                               *)
(***************************************************************************)
main == <<"main", 0>>
sched == <<"scheduler", 0>>
Handlers == {<<"http", i>> : i \in 1..NumHandlers}
Workers == {<<"worker", i>> : i \in 1..NumWorkers}
Threads == {main, sched} \cup Handlers \cup Workers

\* What get_metrics returns: None, or Some list of metrics.
None == [some |-> FALSE, m |-> <<>>]

Some(ms) == [some |-> TRUE, m |-> ms]

\* What the collections of the program report in Spec: counters and gauges of
\* either name, labelled a=1, of the largest value.
SourceMetric ==
  {m \in Metric : /\ to_lowercase(m.mtype) \in {counter_s, gauge_s}
                   /\ m.labels = <<<<"a", 1>>>>
                   /\ m.value = MaxValue}

SourceBatches == SeqsUpTo(SourceMetric, MaxBatch)

\* What the workers of SpecConc hand over: counters and gauges named m1,
\* labelled a=1, of any value.
ConcMetric ==
  {m \in Metric : /\ to_lowercase(m.mtype) \in {counter_s, gauge_s}
                   /\ m.name = "m1"
                   /\ m.labels = <<<<"a", 1>>>>}

ConcBatches == SeqsUpTo(ConcMetric, MaxBatch)

(***************************************************************************)
(* State.                                                                  *)
(***************************************************************************)
VARIABLES
  counters,       \* METRIC_COUNTERS, line 36
  gauges,         \* METRIC_GAUGES, line 39
  registered,     \* names held by the prometheus default registry
  req,            \* SpecRegistry: the call being made, or NoCall
  done,           \* SpecRegistry: the call that just returned, values left out
  ncalls,         \* SpecRegistry: calls made so far
  nmetrics,       \* SpecRegistry: metrics handed over so far
  pc,             \* where each thread is ("off": not running)
  held,           \* the metrics each thread holds (m, line 226 and 258), or None
  idx,            \* the position of each thread's loop over its metrics
  child,          \* the series each thread has resolved (metric, lines 175, 196)
  counters_lock,  \* the threads holding METRIC_COUNTERS' mutex
  gauges_lock,    \* the threads holding METRIC_GAUGES' mutex
  interval,       \* sio_update, line 248
  exit_code,      \* the process's exit status, 0 while it runs
  listening,      \* the HTTP listener is bound
  collections,    \* calls made to the measurement source
  ncycles,        \* scheduler iterations begun
  update_samples, \* samples in UPDATE_HISTOGRAM, line 43
  todo,           \* per handler: the families gather has yet to collect
  keys,           \* per handler: the series of the current family yet to read
  cur,            \* per handler: the family being collected
  buffer,         \* per handler: the samples gathered for the response
  nrequests,      \* HTTP requests received
  http_samples,   \* samples in HTTP_REQ_HISTOGRAM, line 53
  http_body,      \* HTTP_BODY_GAUGE, line 49
  applied         \* per series: the values lines 183 and 204 applied, in order

reg_vars == <<counters, gauges, registered>>
call_vars == <<req, done, ncalls, nmetrics>>
thread_vars == <<pc, held, idx, counters_lock, gauges_lock>>
apply_vars == <<child, applied>>
main_vars == <<interval, exit_code, listening>>
sched_vars == <<collections, ncycles, update_samples>>
http_vars == <<todo, keys, cur, buffer, nrequests, http_samples, http_body>>
prog_vars == <<thread_vars, apply_vars, main_vars, sched_vars, http_vars>>

vars == <<reg_vars, call_vars, prog_vars>>

registry == [counters |-> counters, gauges |-> gauges, registered |-> registered]

NoCall == [op |-> "none", metrics |-> <<>>]

\* A metric without its value: what a returned call is remembered by.
ident(m) == [name |-> m.name, mtype |-> m.mtype, labels |-> m.labels]

returned(r) == [op |-> r.op, metrics |-> [i \in DOMAIN r.metrics |-> ident(r.metrics[i])]]

NoFamily == <<<<"n", "o", "n", "e">>, "none">>

NoChild == <<NoFamily, <<>>>>

\* The statics of lines 35-58, with no thread running.
InitState ==
  /\ counters = EmptyMap
  /\ gauges = EmptyMap
  /\ registered = {}
  /\ req = NoCall
  /\ done = NoCall
  /\ ncalls = 0
  /\ nmetrics = 0
  /\ held = [t \in Threads |-> None]
  /\ idx = [t \in Threads |-> 1]
  /\ child = [t \in Threads |-> NoChild]
  /\ applied = EmptyMap
  /\ counters_lock = {}
  /\ gauges_lock = {}
  /\ exit_code = 0
  /\ collections = 0
  /\ ncycles = 0
  /\ update_samples = 0
  /\ todo = [h \in Handlers |-> {}]
  /\ keys = [h \in Handlers |-> {}]
  /\ cur = [h \in Handlers |-> NoFamily]
  /\ buffer = [h \in Handlers |-> EmptyMap]
  /\ nrequests = 0
  /\ http_samples = 0
  /\ http_body = 0

(***************************************************************************)
(* SpecRegistry: the registry under any sequence of load_prom and          *)
(* updata_metrics calls, each a whole call.                                *)
(***************************************************************************)
InitRegistry ==
  /\ InitState
  /\ pc = [t \in Threads |-> "off"]
  /\ interval = 0
  /\ listening = FALSE

Call ==
  /\ req = NoCall
  /\ done = NoCall
  /\ ncalls < MaxCalls
  /\ \E op \in {"load_prom", "updata_metrics"}, ms \in Batches :
       /\ nmetrics + Len(ms) <= MaxMetrics
       /\ req' = [op |-> op, metrics |-> ms]
       /\ nmetrics' = nmetrics + Len(ms)
  /\ ncalls' = ncalls + 1
  /\ UNCHANGED <<reg_vars, done, prog_vars>>

set_registry(st) ==
  /\ counters' = st.counters
  /\ gauges' = st.gauges
  /\ registered' = st.registered

RunLoadProm ==
  /\ req.op = "load_prom"
  /\ set_registry(load_prom(registry, req.metrics))
  /\ req' = NoCall
  /\ done' = returned(req)
  /\ UNCHANGED <<ncalls, nmetrics, prog_vars>>

RunUpdataMetrics ==
  /\ req.op = "updata_metrics"
  /\ set_registry(updata_metrics(registry, req.metrics))
  /\ req' = NoCall
  /\ done' = returned(req)
  /\ UNCHANGED <<ncalls, nmetrics, prog_vars>>

\* The caller is done with the call that returned.
Drop ==
  /\ done # NoCall
  /\ done' = NoCall
  /\ UNCHANGED <<reg_vars, req, ncalls, nmetrics, prog_vars>>

NextRegistry == Call \/ RunLoadProm \/ RunUpdataMetrics \/ Drop

SpecRegistry == InitRegistry /\ [][NextRegistry]_vars

(***************************************************************************)
(* Spec: the program.  main collects once and registers (lines 254-259),   *)
(* starts the scheduler (260) and serves (262); the scheduler thread       *)
(* collects, applies and sleeps (221-234); the handlers answer requests    *)
(* (86-107).  load_prom and updata_metrics take one step per lock and per  *)
(* metric.                                                                 *)
(***************************************************************************)
Init ==
  /\ InitState
  /\ pc = [t \in Threads |-> IF t = main THEN "start" ELSE "off"]
  /\ interval \in 0..MaxInterval
  /\ listening = FALSE

running == exit_code = 0

\* Mutant of can_lock: a held mutex is handed out again.
can_lock_held(holders) == TRUE

\* Mutex::lock returns once no other thread holds the mutex.
can_lock(holders) == holders = {}

\* Where a thread goes on when load_prom or updata_metrics returns (a worker's
\* call is then over, its metrics and loop position gone).
after_call(t) == IF t = main THEN "spawn" ELSE IF t = sched THEN "observe" ELSE "idle"

\* Lines 113 and 155.
LockCounters(t) ==
  /\ running
  /\ pc[t] \in {"lp_lock_c", "um_lock_c"}
  /\ can_lock(counters_lock)
  /\ counters_lock' = counters_lock \cup {t}
  /\ pc' = [pc EXCEPT ![t] = IF pc[t] = "lp_lock_c" THEN "lp_lock_g" ELSE "um_lock_g"]
  /\ UNCHANGED <<reg_vars, call_vars, apply_vars, held, idx, gauges_lock, main_vars, sched_vars, http_vars>>

\* Lines 114 and 156.
LockGauges(t) ==
  /\ running
  /\ pc[t] \in {"lp_lock_g", "um_lock_g"}
  /\ can_lock(gauges_lock)
  /\ gauges_lock' = gauges_lock \cup {t}
  /\ pc' = [pc EXCEPT ![t] = IF pc[t] = "lp_lock_g" THEN "lp_loop" ELSE "um_loop"]
  /\ idx' = [idx EXCEPT ![t] = 1]
  /\ UNCHANGED <<reg_vars, call_vars, apply_vars, held, counters_lock, main_vars, sched_vars, http_vars>>

\* load_prom, lines 116-148: one metric.
LoadOne(t) ==
  /\ running
  /\ pc[t] = "lp_loop"
  /\ idx[t] <= Len(held[t].m)
  /\ set_registry(load_one(registry, held[t].m[idx[t]]))
  /\ idx' = [idx EXCEPT ![t] = @ + 1]
  /\ UNCHANGED <<call_vars, apply_vars, pc, held, counters_lock, gauges_lock, main_vars, sched_vars, http_vars>>

\* Mutant of LoadReturn: the guards outlive the call.
LoadReturn_keeps(t) ==
  /\ running
  /\ pc[t] = "lp_loop"
  /\ idx[t] > Len(held[t].m)
  /\ pc' = [pc EXCEPT ![t] = after_call(t)]
  /\ held' = [held EXCEPT ![t] = IF t \in Workers THEN None ELSE @]
  /\ idx' = [idx EXCEPT ![t] = IF t \in Workers THEN 1 ELSE @]
  /\ UNCHANGED <<reg_vars, call_vars, apply_vars, counters_lock, gauges_lock, main_vars,
                 sched_vars, http_vars>>

\* load_prom, lines 149-151: the loop is over, both guards are dropped.
LoadReturn(t) ==
  /\ running
  /\ pc[t] = "lp_loop"
  /\ idx[t] > Len(held[t].m)
  /\ counters_lock' = counters_lock \ {t}
  /\ gauges_lock' = gauges_lock \ {t}
  /\ pc' = [pc EXCEPT ![t] = after_call(t)]
  /\ held' = [held EXCEPT ![t] = IF t \in Workers THEN None ELSE @]
  /\ idx' = [idx EXCEPT ![t] = IF t \in Workers THEN 1 ELSE @]
  /\ UNCHANGED <<reg_vars, call_vars, apply_vars, main_vars, sched_vars, http_vars>>

\* updata_metrics, lines 158-181 and 185-202: the next metric's series is
\* resolved (and is there from now on), or the metric is skipped.
ApplyResolve(t) ==
  /\ running
  /\ pc[t] = "um_loop"
  /\ idx[t] <= Len(held[t].m)
  /\ LET m == held[t].m[idx[t]] IN
       IF resolves(registry, m)
         THEN /\ set_registry(resolve_one(registry, m))
              /\ child' = [child EXCEPT ![t] = child_of(registry, m)]
              /\ pc' = [pc EXCEPT ![t] = "um_update"]
              /\ UNCHANGED idx
         ELSE /\ idx' = [idx EXCEPT ![t] = @ + 1]
              /\ UNCHANGED <<reg_vars, child, pc>>
  /\ UNCHANGED <<call_vars, applied, held, counters_lock, gauges_lock, main_vars, sched_vars,
                 http_vars>>

\* updata_metrics, lines 183 and 204: the resolved series is incremented, or set.
ApplyUpdate(t) ==
  /\ running
  /\ pc[t] = "um_update"
  /\ LET m == held[t].m[idx[t]] IN
       /\ set_registry(update_one(registry, m))
       /\ applied' = put(applied, child[t],
                         Append(IF child[t] \in DOMAIN applied THEN applied[child[t]] ELSE <<>>,
                                m.value))
  /\ child' = [child EXCEPT ![t] = NoChild]
  /\ idx' = [idx EXCEPT ![t] = @ + 1]
  /\ pc' = [pc EXCEPT ![t] = "um_loop"]
  /\ UNCHANGED <<call_vars, held, counters_lock, gauges_lock, main_vars, sched_vars, http_vars>>

\* Mutant of ApplyReturn: the guards outlive the call.
ApplyReturn_keeps(t) ==
  /\ running
  /\ pc[t] = "um_loop"
  /\ idx[t] > Len(held[t].m)
  /\ pc' = [pc EXCEPT ![t] = after_call(t)]
  /\ UNCHANGED <<reg_vars, call_vars, apply_vars, held, idx, counters_lock, gauges_lock,
                 main_vars, sched_vars, http_vars>>

\* updata_metrics, line 210: the loop is over, both guards are dropped.
ApplyReturn(t) ==
  /\ running
  /\ pc[t] = "um_loop"
  /\ idx[t] > Len(held[t].m)
  /\ counters_lock' = counters_lock \ {t}
  /\ gauges_lock' = gauges_lock \ {t}
  /\ pc' = [pc EXCEPT ![t] = after_call(t)]
  /\ held' = [held EXCEPT ![t] = IF t \in Workers THEN None ELSE @]
  /\ idx' = [idx EXCEPT ![t] = IF t \in Workers THEN 1 ELSE @]
  /\ UNCHANGED <<reg_vars, call_vars, apply_vars, main_vars, sched_vars, http_vars>>

\* main, line 254: the startup collection.
MainCollect ==
  /\ running
  /\ pc[main] = "start"
  /\ collections' = collections + 1
  /\ \E r \in {Some(ms) : ms \in SourceBatches} \cup {None} :
       held' = [held EXCEPT ![main] = r]
  /\ pc' = [pc EXCEPT ![main] = "match"]
  /\ UNCHANGED <<reg_vars, call_vars, apply_vars, idx, counters_lock, gauges_lock, main_vars,
                 ncycles, update_samples, http_vars>>

\* Mutant of MainExit: a failed startup collection is taken for an empty one.
MainExit_goes_on ==
  /\ running
  /\ pc[main] = "match"
  /\ held[main] = None
  /\ held' = [held EXCEPT ![main] = Some(<<>>)]
  /\ pc' = [pc EXCEPT ![main] = "lp_lock_c"]
  /\ UNCHANGED <<reg_vars, call_vars, apply_vars, idx, counters_lock, gauges_lock, main_vars,
                 sched_vars, http_vars>>

\* main, lines 255-257: process::exit(1).
MainExit ==
  /\ running
  /\ pc[main] = "match"
  /\ held[main] = None
  /\ exit_code' = 1
  /\ pc' = [pc EXCEPT ![main] = "exited"]
  /\ UNCHANGED <<reg_vars, call_vars, apply_vars, held, idx, counters_lock, gauges_lock, interval,
                 listening, sched_vars, http_vars>>

\* main, line 258: load_prom(&m).
MainLoad ==
  /\ running
  /\ pc[main] = "match"
  /\ held[main] # None
  /\ pc' = [pc EXCEPT ![main] = "lp_lock_c"]
  /\ UNCHANGED <<reg_vars, call_vars, apply_vars, held, idx, counters_lock, gauges_lock, main_vars,
                 sched_vars, http_vars>>

\* Mutant of scheduler_enabled: the interval is not looked at.
scheduler_always(i) == TRUE

\* scheduler, lines 214-216.
scheduler_enabled(i) == i # 0

\* main, line 260: scheduler(&sio, interval) spawns the thread, or does not.
MainScheduler ==
  /\ running
  /\ pc[main] = "spawn"
  /\ pc' = [pc EXCEPT ![main] = "serve",
                      ![sched] = IF scheduler_enabled(interval) THEN "collect" ELSE "off"]
  /\ UNCHANGED <<reg_vars, call_vars, apply_vars, held, idx, counters_lock, gauges_lock, main_vars,
                 sched_vars, http_vars>>

\* main, line 262: start_exporter binds the listener and serves.
MainServe ==
  /\ running
  /\ pc[main] = "serve"
  /\ listening' = TRUE
  /\ pc' = [t \in Threads |-> IF t = main THEN "serving"
                              ELSE IF t \in Handlers THEN "idle" ELSE pc[t]]
  /\ UNCHANGED <<reg_vars, call_vars, apply_vars, held, idx, counters_lock, gauges_lock, interval,
                 exit_code, sched_vars, http_vars>>

\* scheduler, line 224: one collection.
SchedCollect ==
  /\ running
  /\ pc[sched] = "collect"
  /\ ncycles < MaxCycles
  /\ ncycles' = ncycles + 1
  /\ collections' = collections + 1
  /\ \E r \in {Some(ms) : ms \in SourceBatches} \cup {None} :
       held' = [held EXCEPT ![sched] = r]
  /\ pc' = [pc EXCEPT ![sched] = "match"]
  /\ UNCHANGED <<reg_vars, call_vars, apply_vars, idx, counters_lock, gauges_lock, main_vars,
                 update_samples, http_vars>>

\* Mutant of SchedSkip: a failed collection ends the loop.
SchedSkip_exits ==
  /\ running
  /\ pc[sched] = "match"
  /\ held[sched] = None
  /\ pc' = [pc EXCEPT ![sched] = "off"]
  /\ UNCHANGED <<reg_vars, call_vars, apply_vars, held, idx, counters_lock, gauges_lock, main_vars,
                 sched_vars, http_vars>>

\* Mutant of SchedSkip: a failed collection is timed like a successful one.
SchedSkip_observes ==
  /\ running
  /\ pc[sched] = "match"
  /\ held[sched] = None
  /\ pc' = [pc EXCEPT ![sched] = "observe"]
  /\ UNCHANGED <<reg_vars, call_vars, apply_vars, held, idx, counters_lock, gauges_lock, main_vars,
                 sched_vars, http_vars>>

\* scheduler, line 225: the cycle is skipped.
SchedSkip ==
  /\ running
  /\ pc[sched] = "match"
  /\ held[sched] = None
  /\ pc' = [pc EXCEPT ![sched] = "sleep"]
  /\ UNCHANGED <<reg_vars, call_vars, apply_vars, held, idx, counters_lock, gauges_lock, main_vars,
                 sched_vars, http_vars>>

\* Mutant of SchedApply: the scheduler registers what it has collected.
SchedApply_registers ==
  /\ running
  /\ pc[sched] = "match"
  /\ held[sched] # None
  /\ pc' = [pc EXCEPT ![sched] = "lp_lock_c"]
  /\ UNCHANGED <<reg_vars, call_vars, apply_vars, held, idx, counters_lock, gauges_lock, main_vars,
                 sched_vars, http_vars>>

\* scheduler, lines 226-228: the timer starts, updata_metrics(&m) is called.
SchedApply ==
  /\ running
  /\ pc[sched] = "match"
  /\ held[sched] # None
  /\ pc' = [pc EXCEPT ![sched] = "um_lock_c"]
  /\ UNCHANGED <<reg_vars, call_vars, apply_vars, held, idx, counters_lock, gauges_lock, main_vars,
                 sched_vars, http_vars>>

\* Mutant of SchedObserve: the timer is dropped without a sample.
SchedObserve_none ==
  /\ running
  /\ pc[sched] = "observe"
  /\ pc' = [pc EXCEPT ![sched] = "sleep"]
  /\ UNCHANGED <<reg_vars, call_vars, apply_vars, held, idx, counters_lock, gauges_lock, main_vars,
                 sched_vars, http_vars>>

\* scheduler, line 229: timer.observe_duration().
SchedObserve ==
  /\ running
  /\ pc[sched] = "observe"
  /\ update_samples' = update_samples + 1
  /\ pc' = [pc EXCEPT ![sched] = "sleep"]
  /\ UNCHANGED <<reg_vars, call_vars, apply_vars, held, idx, counters_lock, gauges_lock, main_vars,
                 collections, ncycles, http_vars>>

\* scheduler, line 233: thread::sleep(interval).
SchedSleep ==
  /\ running
  /\ pc[sched] = "sleep"
  /\ pc' = [pc EXCEPT ![sched] = "collect"]
  /\ UNCHANGED <<reg_vars, call_vars, apply_vars, held, idx, counters_lock, gauges_lock, main_vars,
                 sched_vars, http_vars>>

(***************************************************************************)
(* The handler, lines 86-107.  prometheus::gather() collects the families  *)
(* the default registry holds when it is called, one after the other; a    *)
(* family's series are those it has when its collection starts, and each   *)
(* series value is one atomic load.  It takes neither METRIC_COUNTERS' nor *)
(* METRIC_GAUGES' mutex.                                                   *)
(***************************************************************************)
families ==
  {<<counter_s, n>> : n \in DOMAIN counters} \cup {<<gauge_s, n>> : n \in DOMAIN gauges}

vec_of(f) == IF f[1] = counter_s THEN counters[f[2]] ELSE gauges[f[2]]

\* Line 87: a request arrives, gather starts.
Request(h) ==
  /\ running
  /\ listening
  /\ pc[h] = "idle"
  /\ nrequests < MaxRequests
  /\ nrequests' = nrequests + 1
  /\ todo' = [todo EXCEPT ![h] = families]
  /\ buffer' = [buffer EXCEPT ![h] = EmptyMap]
  /\ pc' = [pc EXCEPT ![h] = "gather"]
  /\ UNCHANGED <<reg_vars, call_vars, apply_vars, held, idx, counters_lock, gauges_lock, main_vars,
                 sched_vars, keys, cur, http_samples, http_body>>

\* Mutant of Collect: a family is collected under the two mutexes.
Collect_locked(h) ==
  /\ running
  /\ pc[h] = "gather"
  /\ keys[h] = {}
  /\ can_lock(counters_lock)
  /\ can_lock(gauges_lock)
  /\ \E f \in todo[h] :
       /\ cur' = [cur EXCEPT ![h] = f]
       /\ keys' = [keys EXCEPT ![h] = DOMAIN vec_of(f).series]
       /\ todo' = [todo EXCEPT ![h] = @ \ {f}]
  /\ UNCHANGED <<reg_vars, call_vars, apply_vars, thread_vars, main_vars, sched_vars, buffer,
                 nrequests, http_samples, http_body>>

\* gather: the next family's collection starts.
Collect(h) ==
  /\ running
  /\ pc[h] = "gather"
  /\ keys[h] = {}
  /\ \E f \in todo[h] :
       /\ cur' = [cur EXCEPT ![h] = f]
       /\ keys' = [keys EXCEPT ![h] = DOMAIN vec_of(f).series]
       /\ todo' = [todo EXCEPT ![h] = @ \ {f}]
  /\ UNCHANGED <<reg_vars, call_vars, apply_vars, thread_vars, main_vars, sched_vars, buffer,
                 nrequests, http_samples, http_body>>

\* gather: one series of the current family is read.
ReadSeries(h) ==
  /\ running
  /\ pc[h] = "gather"
  /\ \E k \in keys[h] :
       /\ buffer' = [buffer EXCEPT ![h] = put(@, <<cur[h], k>>, vec_of(cur[h]).series[k])]
       /\ keys' = [keys EXCEPT ![h] = @ \ {k}]
  /\ UNCHANGED <<reg_vars, call_vars, apply_vars, thread_vars, main_vars, sched_vars, todo, cur,
                 nrequests, http_samples, http_body>>

\* gather returns.
Gathered(h) ==
  /\ running
  /\ pc[h] = "gather"
  /\ keys[h] = {}
  /\ todo[h] = {}
  /\ cur' = [cur EXCEPT ![h] = NoFamily]
  /\ pc' = [pc EXCEPT ![h] = "encode"]
  /\ UNCHANGED <<reg_vars, call_vars, apply_vars, held, idx, counters_lock, gauges_lock, main_vars,
                 sched_vars, todo, keys, buffer, nrequests, http_samples, http_body>>

\* Lines 90-91: encoder.encode returned Ok.
EncodeOk(h) ==
  /\ running
  /\ pc[h] = "encode"
  /\ pc' = [pc EXCEPT ![h] = "send"]
  /\ UNCHANGED <<reg_vars, call_vars, apply_vars, held, idx, counters_lock, gauges_lock, main_vars,
                 sched_vars, http_vars>>

\* Mutant of EncodeErr: a request whose encoding failed is timed all the same.
EncodeErr_timed(h) ==
  /\ running
  /\ pc[h] = "encode"
  /\ buffer' = [buffer EXCEPT ![h] = EmptyMap]
  /\ http_samples' = http_samples + 1
  /\ pc' = [pc EXCEPT ![h] = "idle"]
  /\ UNCHANGED <<reg_vars, call_vars, apply_vars, held, idx, counters_lock, gauges_lock, main_vars,
                 sched_vars, todo, keys, cur, nrequests, http_body>>

\* Line 105: encoder.encode returned Err; the response goes out without a body.
EncodeErr(h) ==
  /\ running
  /\ pc[h] = "encode"
  /\ buffer' = [buffer EXCEPT ![h] = EmptyMap]
  /\ pc' = [pc EXCEPT ![h] = "idle"]
  /\ UNCHANGED <<reg_vars, call_vars, apply_vars, held, idx, counters_lock, gauges_lock, main_vars,
                 sched_vars, todo, keys, cur, nrequests, http_samples, http_body>>

\* Lines 92-103: the body is sent, the latency observed, the body size set (the
\* number of samples stands for the number of bytes).
Send(h) ==
  /\ running
  /\ pc[h] = "send"
  /\ http_samples' = http_samples + 1
  /\ http_body' = Cardinality(DOMAIN buffer[h])
  /\ buffer' = [buffer EXCEPT ![h] = EmptyMap]
  /\ pc' = [pc EXCEPT ![h] = "idle"]
  /\ UNCHANGED <<reg_vars, call_vars, apply_vars, held, idx, counters_lock, gauges_lock, main_vars,
                 sched_vars, todo, keys, cur, nrequests>>

Main == MainCollect \/ MainExit \/ MainLoad \/ MainScheduler \/ MainServe

Scheduler == SchedCollect \/ SchedSkip \/ SchedApply \/ SchedObserve \/ SchedSleep

Handler(h) ==
  Request(h) \/ Collect(h) \/ ReadSeries(h) \/ Gathered(h) \/ EncodeOk(h) \/ EncodeErr(h) \/ Send(h)

Next ==
  \/ Main
  \/ Scheduler
  \/ \E t \in {main, sched} : LockCounters(t) \/ LockGauges(t)
  \/ LoadOne(main) \/ LoadReturn(main)
  \/ ApplyResolve(sched) \/ ApplyUpdate(sched) \/ ApplyReturn(sched)
  \/ \E h \in Handlers : Handler(h)

Spec == Init /\ [][Next]_vars

\* The steps of the scheduler thread; FairSpec is the program with a scheduler
\* thread that the operating system keeps running.
SchedulerThread ==
  \/ Scheduler
  \/ LockCounters(sched) \/ LockGauges(sched)
  \/ ApplyResolve(sched) \/ ApplyUpdate(sched) \/ ApplyReturn(sched)

\* The program while no request arrives.
NextQuiet ==
  \/ Main
  \/ LockCounters(main) \/ LockGauges(main) \/ LoadOne(main) \/ LoadReturn(main)
  \/ SchedulerThread

FairSpec == Init /\ [][NextQuiet]_vars /\ WF_vars(SchedulerThread)

(***************************************************************************)
(* SpecConc: load_prom and updata_metrics called from several threads at   *)
(* once, next to the handlers' reads.                                      *)
(***************************************************************************)
InitConc ==
  /\ InitState
  /\ pc = [t \in Threads |-> IF t \in Workers \cup Handlers THEN "idle" ELSE "off"]
  /\ interval = 0
  /\ listening = TRUE

\* A worker calls load_prom (line 112) or updata_metrics (line 154).
Invoke(t) ==
  /\ running
  /\ pc[t] = "idle"
  /\ ncalls < MaxCalls
  /\ \E first \in {"lp_lock_c", "um_lock_c"}, ms \in ConcBatches :
       /\ nmetrics + Len(ms) <= MaxMetrics
       /\ held' = [held EXCEPT ![t] = Some(ms)]
       /\ nmetrics' = nmetrics + Len(ms)
       /\ pc' = [pc EXCEPT ![t] = first]
  /\ ncalls' = ncalls + 1
  /\ UNCHANGED <<reg_vars, req, done, apply_vars, idx, counters_lock, gauges_lock, main_vars,
                 sched_vars, http_vars>>

\* The steps of a call of load_prom or updata_metrics on thread t.
InCall(t) ==
  \/ LockCounters(t) \/ LockGauges(t)
  \/ LoadOne(t) \/ LoadReturn(t)
  \/ ApplyResolve(t) \/ ApplyUpdate(t) \/ ApplyReturn(t)

Worker(t) == Invoke(t) \/ InCall(t)

NextConc ==
  \/ \E t \in Workers : Worker(t)
  \/ \E h \in Handlers : Handler(h)

SpecConc == InitConc /\ [][NextConc]_vars

\* The callers alone, each kept running while it is in a call.
NextCalls == \E t \in Workers : Worker(t)

AnyCallStep == \E t \in Workers : InCall(t)

FairCalls == InitConc /\ [][NextCalls]_vars /\ \A t \in Workers : WF_vars(InCall(t))

(***************************************************************************)
(* What the claims speak of, stated from the metric alone.                 *)
(***************************************************************************)
kind_of(m) == to_lowercase(m.mtype)

key_set(m) == {m.labels[i][1] : i \in DOMAIN m.labels}

value_of(m, k) == m.labels[CHOOSE i \in DOMAIN m.labels : m.labels[i][1] = k][2]

has_family(n) == n \in DOMAIN counters \cup DOMAIN gauges

family_map(kind) ==
  IF kind = counter_s THEN counters ELSE IF kind = gauge_s THEN gauges ELSE EmptyMap

\* Metric m addresses series `key` of family `fam`, registered under n as `kind`.
addresses(m, kind, n, fam, key) ==
  /\ m.name = n
  /\ kind_of(m) = kind
  /\ key_set(m) = Range(fam.labels)
  /\ key = [i \in DOMAIN fam.labels |-> value_of(m, fam.labels[i])]

\* The values, in order, that the metrics of a list carry to one series.
RECURSIVE values_for(_, _, _, _, _)
values_for(metrics, kind, n, fam, key) ==
  IF metrics = <<>> THEN <<>>
  ELSE LET rest == values_for(Tail(metrics), kind, n, fam, key) IN
       IF addresses(Head(metrics), kind, n, fam, key)
         THEN <<Head(metrics).value>> \o rest
         ELSE rest

RECURSIVE sum(_)
sum(s) == IF s = <<>> THEN 0 ELSE Head(s) + sum(Tail(s))

non_negative(s) == SelectSeq(s, LAMBDA v : v >= 0)

\* Every label-value tuple a family of these label names can hold a series for.
keys_of(fam) == [DOMAIN fam.labels -> LabelValues]

value_in(fam, key) == IF key \in DOMAIN fam.series THEN fam.series[key] ELSE 0

load_prom_step == req.op = "load_prom" /\ req' = NoCall

updata_metrics_step == req.op = "updata_metrics" /\ req' = NoCall

(***************************************************************************)
(* Claims about the registry, checked under SpecRegistry.                  *)
(***************************************************************************)
valid_kind(m) == kind_of(m) \in {counter_s, gauge_s}

min_of(S) == CHOOSE i \in S : \A j \in S : i <= j

\* C1: registration is idempotent per name.  A load_prom call leaves every
\* family that exists when it starts exactly as it is (same map, same label
\* names, same series values) and adds no second family under its name; a name
\* without a family that the batch presents with a known kind, however often,
\* ends with exactly one family, the one its first such presentation describes.
C1_IdempotentRegistration ==
  [][load_prom_step =>
       \A n \in Names :
         IF has_family(n)
           THEN /\ (n \in DOMAIN counters') = (n \in DOMAIN counters)
                /\ (n \in DOMAIN gauges') = (n \in DOMAIN gauges)
                /\ n \in DOMAIN counters => counters'[n] = counters[n]
                /\ n \in DOMAIN gauges => gauges'[n] = gauges[n]
           ELSE LET P == {i \in DOMAIN req.metrics :
                            req.metrics[i].name = n /\ valid_kind(req.metrics[i])}
                IN IF P = {}
                     THEN n \notin DOMAIN counters' /\ n \notin DOMAIN gauges'
                     ELSE LET f == req.metrics[min_of(P)]
                              fams == IF kind_of(f) = counter_s THEN counters' ELSE gauges'
                          IN /\ (n \in DOMAIN counters') # (n \in DOMAIN gauges')
                             /\ n \in DOMAIN fams
                             /\ Range(fams[n].labels) = key_set(f)
                             /\ fams[n].series = EmptyMap
  ]_vars

\* C1 witness: load_prom has returned after presenting, with the same kind and
\* label names, a name whose family already held series values.
C1_Witness ==
  /\ done.op = "load_prom"
  /\ \E i \in DOMAIN done.metrics :
       LET m == done.metrics[i] IN
       /\ valid_kind(m)
       /\ m.name \in DOMAIN family_map(kind_of(m))
       /\ Range(family_map(kind_of(m))[m.name].labels) = key_set(m)
       /\ family_map(kind_of(m))[m.name].series # EmptyMap

\* C2 as stated: an updata_metrics call leaves every counter series its batch
\* addresses at its old value plus the sum of ALL the values addressed to it.
C2_CounterSumsAllValues ==
  [][updata_metrics_step =>
       \A n \in DOMAIN counters : \A key \in keys_of(counters[n]) :
         LET vs == values_for(req.metrics, counter_s, n, counters[n], key) IN
         vs # <<>> =>
           /\ key \in DOMAIN counters'[n].series
           /\ counters'[n].series[key] = value_in(counters[n], key) + sum(vs)
  ]_vars

\* C2 amended: an updata_metrics call leaves every counter series its batch
\* addresses at its old value (0 for a new series) plus the sum of the
\* non-negative values addressed to it; a negative value adds nothing.
C2_CounterSumsNonNegative ==
  [][updata_metrics_step =>
       \A n \in DOMAIN counters : \A key \in keys_of(counters[n]) :
         LET vs == values_for(req.metrics, counter_s, n, counters[n], key) IN
         vs # <<>> =>
           /\ key \in DOMAIN counters'[n].series
           /\ counters'[n].series[key] = value_in(counters[n], key) + sum(non_negative(vs))
  ]_vars

\* C2 witness: updata_metrics has returned and a counter series holds more than
\* any single value, so several applies have accumulated in it.
C2_Witness ==
  /\ done.op = "updata_metrics"
  /\ \E i \in DOMAIN done.metrics :
       LET m == done.metrics[i] IN
       /\ kind_of(m) = counter_s
       /\ m.name \in DOMAIN counters
       /\ \E key \in DOMAIN counters[m.name].series :
            /\ addresses(m, counter_s, m.name, counters[m.name], key)
            /\ counters[m.name].series[key] > MaxValue

\* C3: an updata_metrics call leaves every gauge series its batch addresses at
\* the value of the last metric addressed to it, whatever it held before.
C3_GaugeLastValue ==
  [][updata_metrics_step =>
       \A n \in DOMAIN gauges : \A key \in keys_of(gauges[n]) :
         LET vs == values_for(req.metrics, gauge_s, n, gauges[n], key) IN
         vs # <<>> =>
           /\ key \in DOMAIN gauges'[n].series
           /\ gauges'[n].series[key] = vs[Len(vs)]
  ]_vars

\* C3 witness: updata_metrics has returned from a batch that addressed one gauge
\* series twice, and the series holds the negative value.
C3_Witness ==
  /\ done.op = "updata_metrics"
  /\ Len(done.metrics) = 2
  /\ done.metrics[1] = done.metrics[2]
  /\ LET m == done.metrics[2] IN
     /\ kind_of(m) = gauge_s
     /\ m.name \in DOMAIN gauges
     /\ \E key \in DOMAIN gauges[m.name].series :
          /\ addresses(m, gauge_s, m.name, gauges[m.name], key)
          /\ gauges[m.name].series[key] < 0

\* C4: label isolation.  An updata_metrics call changes no series but those its
\* batch addresses: every other series of every family keeps its value, none
\* appears or disappears, and the families themselves stay as they are.
C4_LabelIsolation ==
  [][updata_metrics_step =>
       \A kind \in {counter_s, gauge_s} :
         /\ DOMAIN (family_map(kind))' = DOMAIN family_map(kind)
         /\ \A n \in DOMAIN family_map(kind) :
              LET old == family_map(kind)[n]
                  new == (family_map(kind))'[n]
              IN /\ new.labels = old.labels
                 /\ DOMAIN new.series \subseteq keys_of(old)
                 /\ \A key \in keys_of(old) :
                      values_for(req.metrics, kind, n, old, key) = <<>> =>
                        /\ (key \in DOMAIN new.series) = (key \in DOMAIN old.series)
                        /\ key \in DOMAIN old.series => new.series[key] = old.series[key]
  ]_vars

\* C4 witness: updata_metrics has returned from a batch of one metric that
\* addressed one series of a family holding two, and the two series differ.
C4_Witness ==
  /\ done.op = "updata_metrics"
  /\ Len(done.metrics) = 1
  /\ LET m == done.metrics[1] IN
     /\ valid_kind(m)
     /\ m.name \in DOMAIN family_map(kind_of(m))
     /\ LET fam == family_map(kind_of(m))[m.name] IN
        /\ \E key \in DOMAIN fam.series : addresses(m, kind_of(m), m.name, fam, key)
        /\ \E k1, k2 \in DOMAIN fam.series : fam.series[k1] # fam.series[k2]

\* The batch applied metric by metric with the metrics of never-registered
\* names left out.
RECURSIVE apply_known(_, _)
apply_known(st, metrics) ==
  IF metrics = <<>> THEN st
  ELSE IF Head(metrics).name \notin st.registered
    THEN apply_known(st, Tail(metrics))
    ELSE apply_known(apply_one(st, Head(metrics)), Tail(metrics))

\* C5: a metric whose name was never registered changes nothing and stops
\* nothing.  An updata_metrics call creates no family, and leaves the registry
\* as the same batch without the metrics of unregistered names leaves it: as it
\* was, when the whole batch is of unregistered names.
C5_UnknownNameSkipped ==
  [][updata_metrics_step =>
       /\ DOMAIN counters' = DOMAIN counters
       /\ DOMAIN gauges' = DOMAIN gauges
       /\ registered' = registered
       /\ registry' = apply_known(registry, req.metrics)
       /\ (\A i \in DOMAIN req.metrics : req.metrics[i].name \notin registered)
            => UNCHANGED reg_vars
  ]_vars

\* C5 witness: updata_metrics has returned from a batch whose first metric names
\* no registered family and whose second has reached its series.
C5_Witness ==
  /\ done.op = "updata_metrics"
  /\ Len(done.metrics) = 2
  /\ done.metrics[1].name \notin registered
  /\ LET m == done.metrics[2] IN
     /\ valid_kind(m)
     /\ m.name \in DOMAIN family_map(kind_of(m))
     /\ LET fam == family_map(kind_of(m))[m.name] IN
        \E key \in DOMAIN fam.series : addresses(m, kind_of(m), m.name, fam, key)

\* Metric m is at odds with the family its name holds: another kind, or other
\* label names.
conflicts(m) ==
  /\ has_family(m.name)
  /\ \/ m.name \notin DOMAIN family_map(kind_of(m))
     \/ ~valid_kind(m)
     \/ Range(family_map(kind_of(m))[m.name].labels) # key_set(m)

family_unchanged(n) ==
  /\ n \in DOMAIN counters => n \in DOMAIN counters' /\ counters'[n] = counters[n]
  /\ n \in DOMAIN gauges => n \in DOMAIN gauges' /\ gauges'[n] = gauges[n]

\* C10: no name ever has a family in both maps; a family, once created, stays in
\* its map with its label names; load_prom leaves untouched the family of a name
\* it is handed with another kind or other label names, and updata_metrics the
\* family of a name it is handed only with another kind.
C10_OneFamilyPerName ==
  [][/\ DOMAIN counters' \cap DOMAIN gauges' = {}
     /\ \A n \in DOMAIN counters :
          n \in DOMAIN counters' /\ counters'[n].labels = counters[n].labels
     /\ \A n \in DOMAIN gauges :
          n \in DOMAIN gauges' /\ gauges'[n].labels = gauges[n].labels
     /\ load_prom_step =>
          \A i \in DOMAIN req.metrics :
            conflicts(req.metrics[i]) => family_unchanged(req.metrics[i].name)
     /\ updata_metrics_step =>
          \A n \in Names :
            (\A i \in DOMAIN req.metrics :
               req.metrics[i].name = n =>
                 n \notin DOMAIN family_map(kind_of(req.metrics[i])))
              => family_unchanged(n)
  ]_vars

\* C10 witness: load_prom has returned after it was handed, as a gauge or with
\* other label names, the name of a counter family that holds series values.
C10_Witness ==
  /\ done.op = "load_prom"
  /\ \E i \in DOMAIN done.metrics :
       LET m == done.metrics[i] IN
       /\ m.name \in DOMAIN counters
       /\ counters[m.name].series # EmptyMap
       /\ kind_of(m) = gauge_s \/ Range(counters[m.name].labels) # key_set(m)

\* Metric m names a family of its kind whose label names are not m's label keys.
mismatches(st, m) ==
  /\ valid_kind(m)
  /\ m.name \in DOMAIN (IF kind_of(m) = counter_s THEN st.counters ELSE st.gauges)
  /\ key_set(m) #
       Range((IF kind_of(m) = counter_s THEN st.counters ELSE st.gauges)[m.name].labels)

RECURSIVE apply_fitting(_, _)
apply_fitting(st, metrics) ==
  IF metrics = <<>> THEN st
  ELSE IF mismatches(st, Head(metrics))
    THEN apply_fitting(st, Tail(metrics))
    ELSE apply_fitting(apply_one(st, Head(metrics)), Tail(metrics))

\* C11: a metric whose label keys are not the label names of its family is
\* rejected alone.  An updata_metrics call leaves the registry as the same batch
\* without such metrics leaves it, and a family that the batch addresses only
\* with such metrics keeps exactly the series and values it had.
C11_LabelMismatchRejected ==
  [][updata_metrics_step =>
       /\ registry' = apply_fitting(registry, req.metrics)
       /\ \A n \in Names :
            (\A i \in DOMAIN req.metrics :
               req.metrics[i].name = n => mismatches(registry, req.metrics[i]))
              => family_unchanged(n)
  ]_vars

\* C11 witness: updata_metrics has returned from a batch whose first metric
\* carries other label keys than its family's label names and whose second has
\* reached its series.
C11_Witness ==
  /\ done.op = "updata_metrics"
  /\ Len(done.metrics) = 2
  /\ mismatches(registry, done.metrics[1])
  /\ LET m == done.metrics[2] IN
     /\ valid_kind(m)
     /\ m.name \in DOMAIN family_map(kind_of(m))
     /\ LET fam == family_map(kind_of(m))[m.name] IN
        \E key \in DOMAIN fam.series : addresses(m, kind_of(m), m.name, fam, key)

\* Registration of metric m fails in st: its kind is neither counter nor gauge,
\* its name is malformed, or its name is taken.
fails(st, m) ==
  \/ ~valid_kind(m)
  \/ m.name \in BadNames
  \/ m.name \in DOMAIN st.counters \cup DOMAIN st.gauges

RECURSIVE load_others(_, _)
load_others(st, metrics) ==
  IF metrics = <<>> THEN st
  ELSE IF fails(st, Head(metrics))
    THEN load_others(st, Tail(metrics))
    ELSE load_others(load_one(st, Head(metrics)), Tail(metrics))

applied_to(s) == IF s \in DOMAIN applied THEN applied[s] ELSE <<>>

\* What a series of the kind holds once the values vs were applied to it, in
\* this order, by the rules of C2 and C3; 0 when nothing was.
produced(kind, vs) ==
  IF kind = counter_s THEN sum(non_negative(vs))
  ELSE IF vs = <<>> THEN 0 ELSE vs[Len(vs)]

all_series == UNION {{<<f, k>> : k \in DOMAIN vec_of(f).series} : f \in families}

in_call(t) == pc[t] \in {"lp_loop", "um_loop", "um_update"}

\* C6: with several threads calling the registry and the handlers reading at
\* the same time, the calls go through the maps one at a time, each holding
\* both mutexes for its whole loop; every series holds what the values applied
\* to it so far, in the order they were applied, produce; and every value a
\* read has taken is what some prefix of that order produces.
C6_ConcurrentLinearizable ==
  /\ Cardinality(counters_lock) <= 1
  /\ Cardinality(gauges_lock) <= 1
  /\ Cardinality({t \in Threads : in_call(t)}) <= 1
  /\ \A t \in Threads : in_call(t) => t \in counters_lock /\ t \in gauges_lock
  /\ exit_code = 0
  /\ \A s \in all_series : vec_of(s[1]).series[s[2]] = produced(s[1][1], applied_to(s))
  /\ \A h \in Handlers : \A s \in DOMAIN buffer[h] :
       \E k \in 0..Len(applied_to(s)) :
         buffer[h][s] = produced(s[1][1], SubSeq(applied_to(s), 1, k))

\* A read took a series value that a later apply has replaced since, while one
\* worker is inside updata_metrics' loop and another waits for the first mutex.
C6_Witness ==
  \E h \in Handlers : \E s \in DOMAIN buffer[h] :
    /\ Len(applied_to(s)) >= 2
    /\ buffer[h][s] # vec_of(s[1]).series[s[2]]
    /\ \E t \in Workers, u \in Workers : pc[t] = "um_loop" /\ pc[u] = "um_lock_c"

(***************************************************************************)
(* Claims about the program, checked under Spec.                           *)
(***************************************************************************)
\* What a series holds once the metrics of a list have been applied to a family
\* without series: the non-negative values summed, or the last value.
applied_value(ms, kind, n, fam, key) ==
  LET vs == values_for(ms, kind, n, fam, key) IN
  IF kind = counter_s THEN sum(non_negative(vs)) ELSE vs[Len(vs)]

\* C7: when the startup pass has succeeded, and before the scheduler or the
\* listener starts, every metric of the startup collection is registered and
\* applied: its family exists and, where the metric fits its family, its series
\* exists and holds the collected value.
C7_StartupApplied ==
  pc[main] = "spawn" =>
    \A i \in DOMAIN held[main].m :
      LET m == held[main].m[i] IN
      valid_kind(m) =>
        /\ has_family(m.name)
        /\ m.name \in DOMAIN family_map(kind_of(m)) =>
             LET fam == family_map(kind_of(m))[m.name] IN
             \A key \in keys_of(fam) :
               addresses(m, kind_of(m), m.name, fam, key) =>
                 /\ key \in DOMAIN fam.series
                 /\ fam.series[key] = applied_value(held[main].m, kind_of(m), m.name, fam, key)

startup_failed == pc[main] \in {"match", "exited"} /\ ~held[main].some

nothing_started ==
  /\ pc[sched] = "off"
  /\ \A h \in Handlers : pc[h] = "off"
  /\ ~listening
  /\ counters = EmptyMap /\ gauges = EmptyMap /\ registered = {}

\* C8: a failed startup collection is followed by exit with status 1 and by
\* nothing else: no scheduler thread, no listener, no family, then or later.
\* The scheduler and the listener are started only once load_prom has returned
\* on main from a startup collection that succeeded.
C8_StartupFailureExits ==
  [][/\ (pc[main] = "match" /\ ~held[main].some) => exit_code' = 1
     /\ startup_failed' => nothing_started'
     /\ exit_code' # 0 => exit_code' = 1 /\ startup_failed'
     /\ (pc'[sched] # "off" \/ listening' \/ \E h \in Handlers : pc'[h] # "off") =>
          /\ pc'[main] \in {"serve", "serving"}
          /\ held'[main].some
          /\ idx'[main] > Len(held'[main].m)
          /\ main \notin counters_lock' \cup gauges_lock'
  ]_vars

\* C8 witness: the startup collection has failed and the process has exited.
C8_Witness ==
  /\ collections = 1
  /\ ~held[main].some
  /\ pc[main] = "exited"
  /\ exit_code = 1

\* C9: with a zero interval there is no scheduler thread, the source is called
\* once, by main, and never again, and updata_metrics is never run by a
\* scheduler: no thread is ever inside it and no update is timed.
C9_ZeroIntervalCollectsOnce ==
  interval = 0 =>
    /\ pc[sched] = "off"
    /\ ncycles = 0
    /\ collections = IF pc[main] = "start" THEN 0 ELSE 1
    /\ update_samples = 0
    /\ \A t \in Threads : pc[t] \notin {"um_lock_c", "um_lock_g", "um_loop", "um_update"}

\* C9 witness: with a zero interval the server is up, has answered a request,
\* and families are registered.
C9_Witness ==
  /\ interval = 0
  /\ pc[main] = "serving"
  /\ http_samples > 0
  /\ families # {}
  /\ collections = 1

\* The scheduler is in a cycle whose collection failed.
failed_cycle == pc[sched] \in {"match", "sleep"} /\ ~held[sched].some

\* C13: a cycle whose collection failed runs no updata_metrics.  From the
\* collection's return to the end of the sleep the scheduler only skips and
\* sleeps, and no step taken meanwhile, by any thread, changes a family, a
\* series value or the number of samples of the update histogram.
C13_FailedCycleSkipped ==
  [][/\ failed_cycle => pc'[sched] \in {"match", "sleep", "collect"}
     /\ (failed_cycle \/ failed_cycle') => UNCHANGED <<reg_vars, update_samples>>
  ]_vars

\* C13 witness: after a cycle that applied values and was timed, the second
\* cycle's collection has failed and the scheduler sleeps.
C13_Witness ==
  /\ ncycles = 2
  /\ pc[sched] = "sleep"
  /\ ~held[sched].some
  /\ update_samples = 1
  /\ \E f \in families : vec_of(f).series # EmptyMap

\* C14: the scheduler loop never ends.  Once the thread runs it runs for ever;
\* a collection is made only at the loop's head, which is reached from the
\* spawn or from the sleep; and with the thread kept running every cycle,
\* failed or not, reaches its sleep and is followed by the next collection
\* (cycles are followed up to MaxCycles).
C14_SchedulerLoopsForever ==
  /\ [][/\ pc[sched] # "off" => pc'[sched] # "off"
        /\ ncycles' # ncycles => pc[sched] = "collect" /\ ncycles' = ncycles + 1
        /\ (pc[sched] # "collect" /\ pc'[sched] = "collect") =>
             pc[sched] \in {"off", "sleep"}
     ]_vars
  /\ \A k \in 1..MaxCycles :
       (pc[sched] \notin {"off", "collect"} /\ ncycles = k) ~> (pc[sched] = "sleep" /\ ncycles = k)
  /\ \A k \in 1..(MaxCycles - 1) :
       /\ (pc[sched] = "sleep" /\ ncycles = k) ~> (pc[sched] = "match" /\ ncycles = k + 1)
       /\ (failed_cycle /\ ncycles = k) ~> (pc[sched] = "match" /\ ncycles = k + 1)
  /\ (pc[sched] # "off") ~> (ncycles = MaxCycles)

\* C14 witness: the collection of the first cycle failed, and the second cycle's
\* collection has been made.
C14_Witness ==
  /\ ncycles = 2
  /\ collections = 3
  /\ pc[sched] = "match"
  /\ update_samples = 0

\* A thread is at, or in, a call to the measurement source.
in_source_call(t) == (t = main /\ pc[t] = "start") \/ (t = sched /\ pc[t] = "collect")

in_sleep(t) == t = sched /\ pc[t] = "sleep"

\* C15: a thread that is in a call to the measurement source or in the sleep
\* between two cycles holds neither METRIC_COUNTERS' nor METRIC_GAUGES' mutex;
\* a thread holds a mutex only between its lock in load_prom or updata_metrics
\* and that call's return.
C15_NoLockAcrossCallOrSleep ==
  \A t \in Threads :
    /\ (in_source_call(t) \/ in_sleep(t)) => t \notin counters_lock \cup gauges_lock
    /\ t \in counters_lock =>
         pc[t] \in {"lp_lock_g", "lp_loop", "um_lock_g", "um_loop", "um_update"}
    /\ t \in gauges_lock => pc[t] \in {"lp_loop", "um_loop", "um_update"}

\* C15 witness: the scheduler sleeps after an updata_metrics call that went
\* through a batch of two under both mutexes, and both mutexes are free.
C15_Witness ==
  /\ pc[sched] = "sleep"
  /\ held[sched].some
  /\ Len(held[sched].m) = 2
  /\ update_samples = 1
  /\ counters_lock = {} /\ gauges_lock = {}

in_request(h) == pc[h] \in {"gather", "encode", "send"}

\* How far a handler is from the end of its request.
stage(h) ==
  IF pc[h] = "gather" THEN 3 ELSE IF pc[h] = "encode" THEN 2 ELSE IF pc[h] = "send" THEN 1 ELSE 0

handler_step(h) ==
  <<pc[h], todo[h], keys[h], cur[h], buffer[h]>>' # <<pc[h], todo[h], keys[h], cur[h], buffer[h]>>

\* C16: a request never waits on the scheduler.  Whatever the scheduler thread
\* is doing, a handler that is in a request has a step it can take, and every
\* step of a handler in a request brings the request nearer its end: one stage
\* further, or one family or one series fewer left to gather.
C16_HandlerNeverWaits ==
  [][\A h \in Handlers :
       /\ in_request(h) => ENABLED Handler(h)
       /\ (in_request(h) /\ handler_step(h)) =>
            \/ stage(h)' < stage(h)
            \/ /\ stage(h)' = stage(h)
               /\ \/ Cardinality(todo'[h]) < Cardinality(todo[h])
                  \/ /\ todo'[h] = todo[h]
                     /\ Cardinality(keys'[h]) < Cardinality(keys[h])
  ]_vars

\* C16 witness: a handler has taken a series value, and has still a family to
\* collect, while updata_metrics holds both mutexes in the middle of a batch of
\* two on the scheduler thread.
C16_Witness ==
  \E h \in Handlers :
    /\ pc[h] = "gather"
    /\ buffer[h] # EmptyMap
    /\ todo[h] # {}
    /\ pc[sched] = "um_loop"
    /\ idx[sched] = 2
    /\ Len(held[sched].m) = 2
    /\ sched \in counters_lock /\ sched \in gauges_lock

\* C17: load_prom and updata_metrics may be called from different threads at
\* once.  While a call is in progress some call has a step it can take (no
\* deadlock); METRIC_GAUGES' mutex is only held by a thread that holds
\* METRIC_COUNTERS'; a thread that is in no call holds neither; and with every
\* calling thread kept running, each call returns, both mutexes released.
C17_ConcurrentCallsReturn ==
  /\ [][/\ (\E t \in Workers : pc[t] # "idle") => ENABLED AnyCallStep
        /\ \A t \in Workers : t \in gauges_lock' => t \in counters_lock'
        /\ \A t \in Workers : pc'[t] = "idle" => t \notin counters_lock' \cup gauges_lock'
     ]_vars
  /\ \A t \in Workers :
       (pc[t] # "idle") ~> (pc[t] = "idle" /\ t \notin counters_lock \cup gauges_lock)

\* C17 witness: one thread is in load_prom's loop, holding both mutexes, while
\* another has called updata_metrics and waits for the first mutex.
C17_Witness ==
  \E t \in Workers, u \in Workers :
    /\ pc[t] = "lp_loop"
    /\ idx[t] <= Len(held[t].m)
    /\ t \in counters_lock /\ t \in gauges_lock
    /\ pc[u] = "um_lock_c"
    /\ held[u].m # <<>>

\* C18: a request whose encoding fails ends there, with nothing written, and
\* leaves HTTP_BODY_GAUGE and HTTP_REQ_HISTOGRAM as they are; the two change
\* only when a handler has sent an encoded body, by one sample and to that
\* body's size; and an idle handler of the running server takes the next
\* request (requests are followed up to MaxRequests).
C18_EncodeFailureScoped ==
  [][/\ \A h \in Handlers :
          /\ (pc[h] = "encode" /\ pc'[h] = "idle") =>
               /\ buffer'[h] = EmptyMap
               /\ UNCHANGED <<http_samples, http_body, reg_vars, exit_code, listening>>
          /\ (pc[h] = "encode" /\ pc'[h] # "encode") => pc'[h] \in {"idle", "send"}
          /\ (pc[h] = "idle" /\ listening /\ nrequests < MaxRequests) => ENABLED Request(h)
     /\ (http_samples' # http_samples \/ http_body' # http_body) =>
          \E h \in Handlers :
            /\ pc[h] = "send" /\ pc'[h] = "idle"
            /\ http_samples' = http_samples + 1
            /\ http_body' = Cardinality(DOMAIN buffer[h])
  ]_vars

\* C18 witness: of two requests that have ended, one was encoded, sent and
\* timed, and the other was not.
C18_Witness ==
  /\ nrequests = 2
  /\ http_samples = 1
  /\ \A h \in Handlers : pc[h] = "idle"
  /\ families # {}

in_updata_metrics(t) == pc[t] \in {"um_lock_c", "um_lock_g", "um_loop", "um_update"}

\* C19: UPDATE_HISTOGRAM holds one sample for each collection that succeeded
\* and was applied.  A cycle reaches its sleep with one sample more when its
\* collection succeeded, and with the same samples when it failed; a sample is
\* added only there, once updata_metrics has returned and released both
\* mutexes; the startup collection, which is not applied, adds none; and there
\* are never more samples than cycles.
C19_SuccessfulCollectionsTimed ==
  [][/\ (pc[sched] # "sleep" /\ pc'[sched] = "sleep") =>
          update_samples' = update_samples + (IF held[sched].some THEN 1 ELSE 0)
     /\ update_samples' # update_samples =>
          /\ pc[sched] = "observe" /\ pc'[sched] = "sleep"
          /\ held[sched].some
          /\ sched \notin counters_lock \cup gauges_lock
     /\ (in_updata_metrics(sched) /\ ~in_updata_metrics(sched)') => pc'[sched] = "observe"
     /\ pc'[sched] = "off" => update_samples' = 0
     /\ update_samples' <= ncycles'
  ]_vars

\* C19 witness: the first cycle's collection failed, the second's succeeded and
\* was applied, and one sample is recorded.
C19_Witness ==
  /\ ncycles = 2
  /\ pc[sched] = "sleep"
  /\ held[sched].some
  /\ held[sched].m # <<>>
  /\ update_samples = 1

in_load_prom(t) == pc[t] \in {"lp_lock_c", "lp_lock_g", "lp_loop"}

startup_over == pc[main] \in {"spawn", "serve", "serving"}

\* C20: the families are those of the startup pass.  load_prom runs on main
\* only, while no other thread runs, and once it has returned no family is
\* added, removed or given other label names; a metric that the scheduler
\* applies under a name without a family is passed over, in whatever cycle it
\* comes: the registry stays as it is and the loop goes on to the next metric.
C20_FamiliesFrozenAfterStartup ==
  [][/\ \A t \in Threads \ {main} : ~in_load_prom(t)'
     /\ ~startup_over' => \A t \in Threads \ {main} : pc'[t] = "off"
     /\ startup_over =>
          /\ startup_over'
          /\ registered' = registered
          /\ DOMAIN counters' = DOMAIN counters
          /\ DOMAIN gauges' = DOMAIN gauges
          /\ \A n \in DOMAIN counters : counters'[n].labels = counters[n].labels
          /\ \A n \in DOMAIN gauges : gauges'[n].labels = gauges[n].labels
     /\ (/\ pc[sched] = "um_loop"
         /\ idx[sched] <= Len(held[sched].m)
         /\ ~has_family(held[sched].m[idx[sched]].name)
         /\ <<pc[sched], idx[sched]>>' # <<pc[sched], idx[sched]>>) =>
          /\ UNCHANGED reg_vars
          /\ pc'[sched] = "um_loop"
          /\ idx'[sched] = idx[sched] + 1
  ]_vars

\* C20 witness: in its second cycle the scheduler has passed over a metric whose
\* name got no family at startup, families there are.
C20_Witness ==
  /\ ncycles = 2
  /\ pc[sched] = "um_loop"
  /\ idx[sched] = 2
  /\ ~has_family(held[sched].m[1].name)
  /\ families # {}

=============================================================================
